---- MODULE Spec2Model ----
(***************************************************************************)
(* auto-add-route: a passive DNS observer that installs host routes toward *)
(* a VPN gateway for answers of corporate zones (src/src/main.rs) and      *)
(* remembers corporate host names in an SQLite table (src/src/store.rs).   *)
(*                                                                         *)
(* The model follows one database file through several launches of the    *)
(* process.  The main thread walks main() -> DnsAutoRoutes::new ->         *)
(* DnsAutoRoutes::start; the replay thread is the closure spawned by       *)
(* replay_logged_entries.  The capture loop is strictly sequential: it    *)
(* takes a packet and, for a response, goes through its answers one by    *)
(* one before it takes the next.                                           *)
(***************************************************************************)
EXTENDS Integers, Sequences, FiniteSets, TLC

(***************************************************************************)
(* Bounds of the model.                                                    *)
(***************************************************************************)
MaxAnswers == 2       \* answers in one response
MaxTicks == 2         \* advances of the wall clock
MaxRuns == 2          \* launches of the process over one database file
StartTime == 1000000  \* wall clock (unix seconds) at the first launch

(***************************************************************************)
(* Program constants.                                                      *)
(***************************************************************************)
Week == 86400 * 7     \* store.rs:74  Duration::from_secs(86400 * 7)
GraceDelay == 1       \* main.rs:44   Duration::from_secs(1)
HttpPort == 80        \* main.rs:46   "{}:80"

Hour == 60 * 60
Day == 24 * Hour
\* The amounts by which the wall clock advances between two steps.
Steps == {Hour, Week, 8 * Day - Hour}

(***************************************************************************)
(* Domain names (trust_dns_proto::rr::Name): a sequence of labels, case    *)
(* kept as received.  Equality, hashing and zone_of ignore case.           *)
(***************************************************************************)
LowerLabel(l) ==
    CASE l = "CORP" -> "corp"
      [] l = "NotCorp" -> "notcorp"
      [] OTHER -> l

to_lowercase(n) == [i \in 1..Len(n) |-> LowerLabel(n[i])]

NameEq(a, b) == to_lowercase(a) = to_lowercase(b)

\* A zone test by string suffix instead of by labels: "notcorp.com" ends
\* with "corp.com".
LabelEndsWith(l, z) == l = z \/ (l = "notcorp" /\ z = "corp")

zone_of_ends_with(zone, name) ==
    LET z == to_lowercase(zone)
        n == to_lowercase(name)
    IN  IF Len(z) = 0 THEN TRUE
        ELSE IF Len(z) > Len(n) THEN FALSE
        ELSE /\ \A k \in 0..(Len(z) - 2) : z[Len(z) - k] = n[Len(n) - k]
             /\ LabelEndsWith(n[Len(n) - Len(z) + 1], z[1])

\* Name::zone_of: self's labels are a suffix of name's labels, case ignored;
\* the root (no labels) is a zone of every name.
zone_of(zone, name) ==
    LET z == to_lowercase(zone)
        n == to_lowercase(name)
    IN  IF Len(z) = 0 THEN TRUE
        ELSE IF Len(n) = 0 THEN FALSE
        ELSE IF Len(z) > Len(n) THEN FALSE
        ELSE \A k \in 0..(Len(z) - 1) : z[Len(z) - k] = n[Len(n) - k]

(***************************************************************************)
(* Strings are sequences of tokens: a label, "." or ":" or a number.       *)
(***************************************************************************)
\* Name::to_string of a name decoded from the wire (fully qualified): every
\* label followed by a dot; the root is ".".
RECURSIVE name_to_string(_)
name_to_string(n) ==
    IF Len(n) = 0 THEN <<".">>
    ELSE IF Len(n) = 1 THEN <<n[1], ".">>
    ELSE <<n[1], ".">> \o name_to_string(Tail(n))

\* str::trim_end_matches(".")
RECURSIVE trim_end_matches(_)
trim_end_matches(s) ==
    IF Len(s) > 0 /\ s[Len(s)] = "."
    THEN trim_end_matches(SubSeq(s, 1, Len(s) - 1))
    ELSE s

\* Ipv4Addr::to_string
ipv4_to_string(a) ==
    <<ToString(a[1]), ".", ToString(a[2]), ".", ToString(a[3]), ".", ToString(a[4])>>

\* format!("{}:80", entry.host)
addr_port(host) == host \o <<":", ToString(HttpPort)>>

(***************************************************************************)
(* The input alphabet: owner names, addresses, answers, configurations.    *)
(***************************************************************************)
Root == <<>>
CorpZone == <<"corp", "com">>
OrgZone == <<"org">>
VpnCorp == <<"vpn", "CORP", "com">>     \* inside corp.com, mixed case
NotCorp == <<"notcorp", "com">>         \* shares only the label "com"
NotCorpUC == <<"NotCorp", "com">>       \* the same name as a CNAME target
CdnNet == <<"cdn", "net">>

Ip1 == <<93, 184, 216, 34>>
Ip2 == <<10, 1, 2, 3>>
Gateway == <<10, 0, 0, 1>>

RDataA(addr) == [kind |-> "A", addr |-> addr]
RDataCNAME(cname) == [kind |-> "CNAME", cname |-> cname]
NoData == [kind |-> "None"]
RDataNS == [kind |-> "NS"]

Record(name, rr_type, data) == [name |-> name, rr_type |-> rr_type, data |-> data]

\* The answers offered to the matching engine.
EngineAnswers ==
    { Record(VpnCorp, "A", RDataA(Ip1)),
      Record(NotCorp, "A", RDataA(Ip2)),
      Record(CdnNet, "A", RDataA(Ip1)),
      Record(VpnCorp, "CNAME", RDataCNAME(NotCorpUC)),
      Record(NotCorp, "CNAME", RDataCNAME(CdnNet)),
      Record(VpnCorp, "NS", RDataNS),
      Record(VpnCorp, "A", NoData) }

\* The answers offered when the store is exercised: three owners, one the root.
StoreAnswers ==
    { Record(VpnCorp, "NS", RDataNS),
      Record(NotCorp, "NS", RDataNS),
      Record(Root, "NS", RDataNS) }

\* Args::domain_suffices after Name::from_utf8 (main.rs:58-62)
EngineZoneSets == {<<>>, <<OrgZone, CorpZone>>}
StoreZoneSets == {<<Root>>}

(***************************************************************************)
(* The state.                                                              *)
(***************************************************************************)
VARIABLES
    target,       \* DnsAutoRoutes.target
    corp_zones,   \* DnsAutoRoutes.corp_zones
    db_path,      \* Args.db_path is Some
    alias,        \* DnsAutoRoutes.alias
    dns_log,      \* the table dns_log of the database file: rows in rowid order
    now,          \* SystemTime::now(), unix seconds
    ticks,        \* advances of the clock so far
    runs,         \* launches of the process so far
    pc,           \* the main thread's position
    replay,       \* the replay thread: its position, entries and wake-up time
    attempts,     \* to_socket_addrs calls of the replay thread, in order
    loaded,       \* what load_logged_entries returned at this launch
    packet,       \* the packet the capture loop took last; of a response,
                  \* the answers log_dns_response has gone through so far
    aliasPre,     \* alias as it was before that packet
    routes,       \* `route -n add -host` invocations made for that packet
    upserts,      \* DnsLogStore::on_query calls made for that packet
    cnamed,       \* history: targets of zone-owned CNAME answers of this run
    cnamedPre,    \* cnamed as it was before the last packet
    lastSeen      \* history: host -> time of its latest successful on_query

vars == <<target, corp_zones, db_path, alias, dns_log, now, ticks, runs, pc,
          replay, attempts, loaded, packet, aliasPre, routes, upserts,
          cnamed, cnamedPre, lastSeen>>

(***************************************************************************)
(* store.rs                                                                *)
(***************************************************************************)
\* An insert without the unique index: a plain INSERT.
on_query_insert(rows, host, timestamp) ==
    Append(rows, [timestamp |-> timestamp, host |-> host])

\* INSERT ... ON CONFLICT(host) DO UPDATE SET timestamp=excluded.timestamp
\* under the unique index uniq_host.
on_query(rows, host, timestamp) ==
    IF \E i \in 1..Len(rows) : rows[i].host = host
    THEN [i \in 1..Len(rows) |->
            IF rows[i].host = host
            THEN [rows[i] EXCEPT !.timestamp = timestamp]
            ELSE rows[i]]
    ELSE Append(rows, [timestamp |-> timestamp, host |-> host])

\* A load whose window includes its boundary: WHERE timestamp >= ?
load_entries_inclusive(rows, time) ==
    LET recent_timestamp == time - Week
        IsRecent(r) == r.timestamp >= recent_timestamp
        IsValid(r) == r.timestamp # 0 /\ Len(r.host) # 0
    IN  SelectSeq(SelectSeq(rows, IsRecent), IsValid)

\* SELECT timestamp, host FROM dns_log WHERE timestamp > ?   (? = now - 7 days)
\* followed by the cursor loop that drops zero timestamps and empty hosts.
load_entries(rows, time) ==
    LET recent_timestamp == time - Week
        IsRecent(r) == r.timestamp > recent_timestamp
        IsValid(r) == r.timestamp # 0 /\ Len(r.host) # 0
    IN  SelectSeq(SelectSeq(rows, IsRecent), IsValid)

(***************************************************************************)
(* main.rs: the matching engine.  The state an answer is processed in is a *)
(* record [alias, rows, routes, upserts].                                  *)
(***************************************************************************)
\* A membership test that compares the labels as received, case included.
alias_contains_exact(set, name) == name \in set

\* HashSet<Name>::contains
alias_contains(set, name) == \E a \in set : NameEq(a, name)

\* HashSet<Name>::insert: an equal name already present is kept
alias_insert(set, name) == IF alias_contains(set, name) THEN set ELSE set \cup {name}

\* An on_query_corp without the early return of main.rs:152-154.
on_query_corp_unguarded(st, host, i, upsertFails) ==
    LET h == trim_end_matches(host)
    IN  [st EXCEPT
           !.rows = IF upsertFails THEN st.rows ELSE on_query(st.rows, h, now),
           !.upserts = Append(st.upserts,
                           [idx |-> i, host |-> h, ok |-> ~upsertFails])]

\* on_query_corp(host): nothing without a store; otherwise one on_query call
\* with the trailing dots trimmed, whose failure is only logged.
on_query_corp(st, host, i, upsertFails) ==
    IF ~db_path THEN st
    ELSE LET h == trim_end_matches(host)
         IN  [st EXCEPT
                !.rows = IF upsertFails THEN st.rows ELSE on_query(st.rows, h, now),
                !.upserts = Append(st.upserts,
                                [idx |-> i, host |-> h, ok |-> ~upsertFails])]

\* A route installation that skips a destination already routed for this
\* response.
add_vpn_route_once(st, ip, i, routeFails) ==
    IF \E k \in 1..Len(st.routes) : st.routes[k].dest = ip
    THEN st
    ELSE [st EXCEPT !.routes = Append(st.routes,
            [idx |-> i, dest |-> ip, gateway |-> ipv4_to_string(target),
             ok |-> ~routeFails])]

\* A route installation that is tried once more when it fails.
add_vpn_route_retrying(st, ip, i, routeFails) ==
    LET r == [idx |-> i, dest |-> ip, gateway |-> ipv4_to_string(target),
              ok |-> ~routeFails]
    IN  [st EXCEPT !.routes = IF routeFails THEN Append(Append(st.routes, r), r)
                              ELSE Append(st.routes, r)]

\* add_vpn_route(ip): one `route -n add -host <ip> <target>` invocation,
\* whose failure is only logged.
add_vpn_route(st, ip, i, routeFails) ==
    [st EXCEPT !.routes = Append(st.routes,
        [idx |-> i, dest |-> ip, gateway |-> ipv4_to_string(target),
         ok |-> ~routeFails])]

\* A dispatch that also logs the owners that qualify as aliases only.
dispatch_logs_alias(st, ans, i, is_corp, is_alias, upsertFails, routeFails) ==
    LET s1 == IF is_corp \/ is_alias
              THEN on_query_corp(st, name_to_string(ans.name), i, upsertFails)
              ELSE st
    IN  CASE ans.rr_type = "A" /\ ans.data.kind = "A" ->
                IF is_corp \/ is_alias
                THEN add_vpn_route(s1, ipv4_to_string(ans.data.addr), i, routeFails)
                ELSE s1
          [] ans.rr_type = "CNAME" /\ ans.data.kind = "CNAME" ->
                IF is_corp
                THEN [s1 EXCEPT !.alias = alias_insert(s1.alias, ans.data.cname)]
                ELSE s1
          [] OTHER -> s1

\* A dispatch that returns as soon as the store reports an error.
dispatch_stops_on_store_error(st, ans, i, is_corp, is_alias, upsertFails, routeFails) ==
    LET s1 == IF is_corp
              THEN on_query_corp(st, name_to_string(ans.name), i, upsertFails)
              ELSE st
    IN  IF is_corp /\ db_path /\ upsertFails THEN s1
        ELSE CASE ans.rr_type = "A" /\ ans.data.kind = "A" ->
                IF is_corp \/ is_alias
                THEN add_vpn_route(s1, ipv4_to_string(ans.data.addr), i, routeFails)
                ELSE s1
          [] ans.rr_type = "CNAME" /\ ans.data.kind = "CNAME" ->
                IF is_corp
                THEN [s1 EXCEPT !.alias = alias_insert(s1.alias, ans.data.cname)]
                ELSE s1
          [] OTHER -> s1

\* A dispatch that takes the target of a CNAME owned by an alias as an alias
\* too, following chains of CNAMEs.
dispatch_follows_chain(st, ans, i, is_corp, is_alias, upsertFails, routeFails) ==
    LET s1 == IF is_corp
              THEN on_query_corp(st, name_to_string(ans.name), i, upsertFails)
              ELSE st
    IN  CASE ans.rr_type = "A" /\ ans.data.kind = "A" ->
                IF is_corp \/ is_alias
                THEN add_vpn_route(s1, ipv4_to_string(ans.data.addr), i, routeFails)
                ELSE s1
          [] ans.rr_type = "CNAME" /\ ans.data.kind = "CNAME" ->
                IF is_corp \/ is_alias
                THEN [s1 EXCEPT !.alias = alias_insert(s1.alias, ans.data.cname)]
                ELSE s1
          [] OTHER -> s1

\* The body of the for loop of log_dns_response from `if is_corp` on
\* (main.rs:173-190), for answer number i.
dispatch(st, ans, i, is_corp, is_alias, upsertFails, routeFails) ==
    LET s1 == IF is_corp
              THEN on_query_corp(st, name_to_string(ans.name), i, upsertFails)
              ELSE st
    IN  CASE ans.rr_type = "A" /\ ans.data.kind = "A" ->
                IF is_corp \/ is_alias
                THEN add_vpn_route(s1, ipv4_to_string(ans.data.addr), i, routeFails)
                ELSE s1
          [] ans.rr_type = "CNAME" /\ ans.data.kind = "CNAME" ->
                IF is_corp
                THEN [s1 EXCEPT !.alias = alias_insert(s1.alias, ans.data.cname)]
                ELSE s1
          [] OTHER -> s1

\* A loop body that tests alias membership against the alias set as it was
\* when the response arrived.
log_dns_response_snapshot(st, ans, i, upsertFails, routeFails) ==
    LET is_alias == alias_contains(aliasPre, ans.name)
        is_corp == \E k \in 1..Len(corp_zones) : zone_of(corp_zones[k], ans.name)
    IN  dispatch(st, ans, i, is_corp, is_alias, upsertFails, routeFails)

\* A loop body that, on a zone-owned CNAME, goes back to the answer before it
\* and routes it if it is an A record owned by the CNAME's target.
log_dns_response_retro(st, ans, i, upsertFails, routeFails) ==
    LET is_alias == alias_contains(st.alias, ans.name)
        is_corp == \E k \in 1..Len(corp_zones) : zone_of(corp_zones[k], ans.name)
        s2 == dispatch(st, ans, i, is_corp, is_alias, upsertFails, routeFails)
        prev == packet.answers[i - 1]
    IN  IF /\ is_corp
           /\ ans.rr_type = "CNAME" /\ ans.data.kind = "CNAME"
           /\ i > 1
           /\ prev.rr_type = "A" /\ prev.data.kind = "A"
           /\ NameEq(prev.name, ans.data.cname)
        THEN add_vpn_route(s2, ipv4_to_string(prev.data.addr), i - 1, routeFails)
        ELSE s2

\* The body of the for loop of log_dns_response, for answer number i:
\* is_alias and is_corp from the state as it is now, then the dispatch.
log_dns_response(st, ans, i, upsertFails, routeFails) ==
    LET is_alias == alias_contains(st.alias, ans.name)
        is_corp == \E k \in 1..Len(corp_zones) : zone_of(corp_zones[k], ans.name)
    IN  dispatch(st, ans, i, is_corp, is_alias, upsertFails, routeFails)

(***************************************************************************)
(* History kept for the properties (not program state).                    *)
(***************************************************************************)
\* name lies in some configured zone: its last labels are the zone's labels
InZone(name) ==
    \E k \in 1..Len(corp_zones) :
        LET z == corp_zones[k]
        IN  /\ Len(z) <= Len(name)
            /\ to_lowercase(SubSeq(name, Len(name) - Len(z) + 1, Len(name)))
                 = to_lowercase(z)

IsA(ans) == ans.rr_type = "A" /\ ans.data.kind = "A"
IsCNAME(ans) == ans.rr_type = "CNAME" /\ ans.data.kind = "CNAME"

\* the labels of a name joined by dots: the host string the store is keyed by
RECURSIVE HostOf(_)
HostOf(n) ==
    IF Len(n) = 0 THEN <<>>
    ELSE IF Len(n) = 1 THEN <<n[1]>>
    ELSE <<n[1], ".">> \o HostOf(Tail(n))

\* targets (lower case) of the zone-owned CNAME answers among answers[1..n]
ZoneCnameTargets(answers, n) ==
    {to_lowercase(answers[j].data.cname) :
        j \in {k \in 1..n : IsCNAME(answers[k]) /\ InZone(answers[k].name)}}

\* lastSeen after an upsert of host h at time t
SeenAfter(seen, h, t) ==
    [x \in (DOMAIN seen) \cup {h} |-> IF x = h THEN t ELSE seen[x]]

(***************************************************************************)
(* Initial state: nothing launched yet, the database file does not exist.  *)
(***************************************************************************)
NoReplay == [pc |-> "none", entries |-> <<>>, next |-> 1, spawned |-> 0, wake |-> 0]
NoPacket == [kind |-> "none", answers |-> <<>>]

Init ==
    /\ target = Gateway
    /\ corp_zones \in EngineZoneSets \cup StoreZoneSets
    /\ db_path \in BOOLEAN
    /\ alias = {}
    /\ dns_log = <<>>
    /\ now = StartTime
    /\ ticks = 0
    /\ runs = 0
    /\ pc = "off"
    /\ replay = NoReplay
    /\ attempts = <<>>
    /\ loaded = <<>>
    /\ packet = NoPacket
    /\ aliasPre = {}
    /\ routes = <<>>
    /\ upserts = <<>>
    /\ cnamed = {}
    /\ cnamedPre = {}
    /\ lastSeen = <<>>

config == <<target, corp_zones, db_path>>
outputs == <<packet, aliasPre, routes, upserts, cnamedPre>>
Running == pc \in {"new", "open", "load", "filter", "capture"}

(***************************************************************************)
(* The main thread.                                                        *)
(***************************************************************************)
\* The process is launched (main, main.rs:195-197).
Launch ==
    /\ pc \in {"off", "exited", "aborted"}
    /\ runs < MaxRuns
    /\ runs' = runs + 1
    /\ pc' = "new"
    /\ alias' = {}
    /\ replay' = NoReplay
    /\ attempts' = <<>>
    /\ loaded' = <<>>
    /\ packet' = NoPacket
    /\ aliasPre' = {}
    /\ routes' = <<>>
    /\ upserts' = <<>>
    /\ cnamed' = {}
    /\ cnamedPre' = {}
    /\ UNCHANGED <<config, dns_log, now, ticks, lastSeen>>

\* DnsAutoRoutes::new: opens the store when a path is given (init_dns_log_store
\* creates table and index if absent); a failure to open it panics.
New ==
    /\ pc = "new"
    /\ \E opened \in BOOLEAN :
          pc' = IF db_path /\ ~opened THEN "aborted" ELSE "open"
    /\ alias' = {}
    /\ UNCHANGED <<config, dns_log, now, ticks, runs, replay, attempts, loaded,
                   outputs, cnamed, lastSeen>>

\* start, up to Capture::open: a failure to find or open the device panics.
OpenCapture ==
    /\ pc = "open"
    /\ \E opened \in BOOLEAN :
          pc' = IF opened THEN "load" ELSE "aborted"
    /\ UNCHANGED <<config, alias, dns_log, now, ticks, runs, replay, attempts,
                   loaded, outputs, cnamed, lastSeen>>

\* load_logged_entries: None without a store or when load_entries fails.
load_logged_entries(failed) ==
    IF ~db_path THEN [some |-> FALSE, e |-> <<>>]
    ELSE IF failed THEN [some |-> FALSE, e |-> <<>>]
    ELSE [some |-> TRUE, e |-> load_entries(dns_log, now)]

\* A replay thread that goes to the entries without sleeping first.
replay_logged_entries_no_sleep(entries) ==
    [pc |-> "sleep", entries |-> entries, next |-> 1, spawned |-> now,
     wake |-> now]

\* replay_logged_entries(entries): spawns the replay thread, which starts
\* with its one second of sleep, and returns.
replay_logged_entries(entries) ==
    [pc |-> "sleep", entries |-> entries, next |-> 1, spawned |-> now,
     wake |-> now + GraceDelay]

\* A load that also clears the table of what it did not return.
LoadAndPurge ==
    /\ pc = "load"
    /\ \E failed \in BOOLEAN :
          LET logged_entries == load_logged_entries(failed)
          IN  /\ loaded' = logged_entries.e
              /\ dns_log' = IF logged_entries.some THEN logged_entries.e ELSE dns_log
              /\ replay' = IF logged_entries.some
                           THEN replay_logged_entries(logged_entries.e)
                           ELSE replay
    /\ pc' = "filter"
    /\ UNCHANGED <<config, alias, now, ticks, runs, attempts, outputs,
                   cnamed, lastSeen>>

\* start: load the logged entries and, if there are any to speak of (Some),
\* hand them to replay_logged_entries.
LoadAndReplay ==
    /\ pc = "load"
    /\ \E failed \in BOOLEAN :
          LET logged_entries == load_logged_entries(failed)
          IN  /\ loaded' = logged_entries.e
              /\ replay' = IF logged_entries.some
                           THEN replay_logged_entries(logged_entries.e)
                           ELSE replay
    /\ pc' = "filter"
    /\ UNCHANGED <<config, alias, dns_log, now, ticks, runs, attempts, outputs,
                   cnamed, lastSeen>>

\* start: cap.filter("udp port 53", true).unwrap()
InstallFilter ==
    /\ pc = "filter"
    /\ \E installed \in BOOLEAN :
          pc' = IF installed THEN "capture" ELSE "aborted"
    /\ UNCHANGED <<config, alias, dns_log, now, ticks, runs, replay, attempts,
                   loaded, outputs, cnamed, lastSeen>>

\* A capture loop without the message_type test of main.rs:112: a query that
\* carries an answer section is handed to log_dns_response like a response.
SkipPacketUnchecked ==
    /\ pc = "capture"
    /\ \E kind \in {"ethernet_err", "dns_err", "query"} :
          /\ packet' = [kind |-> kind, answers |-> <<>>]
          /\ \E ans \in EngineAnswers, routeFails \in BOOLEAN :
                LET st == IF kind = "query"
                          THEN log_dns_response(
                                 [alias |-> alias, rows |-> dns_log,
                                  routes |-> <<>>, upserts |-> <<>>],
                                 ans, 1, FALSE, routeFails)
                          ELSE [alias |-> alias, rows |-> dns_log,
                                routes |-> <<>>, upserts |-> <<>>]
                IN  /\ alias' = st.alias
                    /\ dns_log' = st.rows
                    /\ routes' = st.routes
                    /\ upserts' = st.upserts
    /\ aliasPre' = alias
    /\ cnamedPre' = cnamed
    /\ UNCHANGED <<config, now, ticks, runs, pc, replay,
                   attempts, loaded, cnamed, lastSeen>>

\* cap.next() returns a packet that is not a DNS response: a frame or a
\* message that does not decode, or a message of another type.
SkipPacket ==
    /\ pc = "capture"
    /\ \E kind \in {"ethernet_err", "dns_err", "query"} :
          packet' = [kind |-> kind, answers |-> <<>>]
    /\ aliasPre' = alias
    /\ cnamedPre' = cnamed
    /\ routes' = <<>>
    /\ upserts' = <<>>
    /\ UNCHANGED <<config, alias, dns_log, now, ticks, runs, pc, replay,
                   attempts, loaded, cnamed, lastSeen>>

\* A capture loop that loads the logged entries again with every response
\* and hands them to the replay thread.
TakeResponseReloading ==
    /\ pc = "capture"
    /\ packet' = [kind |-> "response", answers |-> <<>>]
    /\ aliasPre' = alias
    /\ cnamedPre' = cnamed
    /\ routes' = <<>>
    /\ upserts' = <<>>
    /\ loaded' = load_entries(dns_log, now)
    /\ replay' = IF replay.pc = "none" THEN replay
                 ELSE [replay EXCEPT !.entries = load_entries(dns_log, now)]
    /\ UNCHANGED <<config, alias, dns_log, now, ticks, runs, pc,
                   attempts, cnamed, lastSeen>>

\* cap.next() returns a DNS response: log_dns_response is entered.
TakeResponse ==
    /\ pc = "capture"
    /\ packet' = [kind |-> "response", answers |-> <<>>]
    /\ aliasPre' = alias
    /\ cnamedPre' = cnamed
    /\ routes' = <<>>
    /\ upserts' = <<>>
    /\ UNCHANGED <<config, alias, dns_log, now, ticks, runs, pc, replay,
                   attempts, loaded, cnamed, lastSeen>>

\* One iteration of the for loop of log_dns_response, on the next answer of
\* the response being handled.  The loop looks at one answer at a time, so
\* the answers are drawn as it reaches them; the response is over when the
\* capture loop takes its next packet.  Responses carry up to maxLen answers.
HandleAnswer(answerSet, maxLen) ==
    /\ pc = "capture"
    /\ packet.kind = "response"
    /\ Len(packet.answers) < maxLen
    /\ \E ans \in answerSet, upsertFails \in BOOLEAN, routeFails \in BOOLEAN :
          LET i == Len(packet.answers) + 1
              st == log_dns_response(
                      [alias |-> alias, rows |-> dns_log,
                       routes |-> routes, upserts |-> upserts],
                      ans, i, upsertFails, routeFails)
          IN  /\ packet' = [packet EXCEPT !.answers = Append(@, ans)]
              /\ alias' = st.alias
              /\ dns_log' = st.rows
              /\ routes' = st.routes
              /\ upserts' = st.upserts
              /\ cnamed' = IF IsCNAME(ans) /\ InZone(ans.name)
                           THEN cnamed \cup {to_lowercase(ans.data.cname)}
                           ELSE cnamed
              /\ lastSeen' = IF db_path /\ InZone(ans.name) /\ ~upsertFails
                             THEN SeenAfter(lastSeen, HostOf(ans.name), now)
                             ELSE lastSeen
    /\ UNCHANGED <<config, now, ticks, runs, pc, replay, attempts, loaded,
                   aliasPre, cnamedPre>>

\* cap.next() fails: the loop ends, start and main return, the process exits
\* and takes the replay thread with it.
CaptureEnd ==
    /\ pc = "capture"
    /\ pc' = "exited"
    /\ UNCHANGED <<config, alias, dns_log, now, ticks, runs, replay, attempts,
                   loaded, outputs, cnamed, lastSeen>>

(***************************************************************************)
(* The replay thread (the closure of replay_logged_entries).               *)
(***************************************************************************)
\* The thread is in thread::sleep(Duration::from_secs(1)): the second passes.
ReplaySleep ==
    /\ Running
    /\ replay.pc = "sleep"
    /\ now < replay.wake
    /\ now' = now + GraceDelay
    /\ UNCHANGED <<config, alias, dns_log, ticks, runs, pc, replay, attempts,
                   loaded, outputs, cnamed, lastSeen>>

\* thread::sleep(Duration::from_secs(1)) returns.
ReplayWake ==
    /\ Running
    /\ replay.pc = "sleep"
    /\ now >= replay.wake
    /\ replay' = [replay EXCEPT !.pc = "resolve"]
    /\ UNCHANGED <<config, alias, dns_log, now, ticks, runs, pc, attempts,
                   loaded, outputs, cnamed, lastSeen>>

\* A loop that gives up on the first resolution that fails (a `?` or a
\* break in the Err arm).
ReplayResolveAborting ==
    /\ Running
    /\ replay.pc = "resolve"
    /\ replay.next <= Len(replay.entries)
    /\ \E ok \in BOOLEAN :
          /\ attempts' = Append(attempts,
                [addr |-> addr_port(replay.entries[replay.next].host), ok |-> ok])
          /\ replay' = IF ok THEN [replay EXCEPT !.next = replay.next + 1]
                       ELSE [replay EXCEPT !.pc = "done"]
    /\ UNCHANGED <<config, alias, dns_log, now, ticks, runs, pc, loaded,
                   outputs, cnamed, lastSeen>>

\* A loop that writes each host it resolves into the store itself.
ReplayResolveLogging ==
    /\ Running
    /\ replay.pc = "resolve"
    /\ replay.next <= Len(replay.entries)
    /\ \E ok \in BOOLEAN :
          attempts' = Append(attempts,
              [addr |-> addr_port(replay.entries[replay.next].host), ok |-> ok])
    /\ dns_log' = on_query(dns_log, replay.entries[replay.next].host, now)
    /\ replay' = [replay EXCEPT !.next = replay.next + 1]
    /\ UNCHANGED <<config, alias, now, ticks, runs, pc, loaded,
                   outputs, cnamed, lastSeen>>

\* One iteration of the for loop: to_socket_addrs on "<host>:80"; either
\* outcome is only logged.
ReplayResolve ==
    /\ Running
    /\ replay.pc = "resolve"
    /\ replay.next <= Len(replay.entries)
    /\ \E ok \in BOOLEAN :
          attempts' = Append(attempts,
              [addr |-> addr_port(replay.entries[replay.next].host), ok |-> ok])
    /\ replay' = [replay EXCEPT !.next = replay.next + 1]
    /\ UNCHANGED <<config, alias, dns_log, now, ticks, runs, pc, loaded,
                   outputs, cnamed, lastSeen>>

\* The for loop is over: the closure returns and the thread ends.
ReplayDone ==
    /\ Running
    /\ replay.pc = "resolve"
    /\ replay.next > Len(replay.entries)
    /\ replay' = [replay EXCEPT !.pc = "done"]
    /\ UNCHANGED <<config, alias, dns_log, now, ticks, runs, pc, attempts,
                   loaded, outputs, cnamed, lastSeen>>

(***************************************************************************)
(* The environment.                                                        *)
(***************************************************************************)
\* The wall clock advances.
Tick ==
    /\ ticks < MaxTicks
    /\ \E d \in Steps : now' = now + d
    /\ ticks' = ticks + 1
    /\ UNCHANGED <<config, alias, dns_log, runs, pc, replay, attempts, loaded,
                   outputs, cnamed, lastSeen>>

(***************************************************************************)
(* Specifications.                                                         *)
(*                                                                         *)
(* Spec: the matching engine on the full answer alphabet, within one       *)
(* second of wall clock (the replay thread, if spawned, is still asleep).  *)
(*                                                                         *)
(* SpecStore: the store over several launches with the clock advancing by  *)
(* hours and days.  The root zone is configured, so that every owner is    *)
(* logged, the root (whose host string is empty) included.  Responses      *)
(* carry one answer: the store sees the answers of a longer response as    *)
(* it sees those of several responses, one on_query call after the other.  *)
(* The replay thread owns its entries and shares nothing with the store;   *)
(* its steps are left to SpecReplay.                                       *)
(*                                                                         *)
(* SpecReplay: startup and the replay thread next to the capture loop,     *)
(* the clock advancing by the second the thread sleeps.  The operating     *)
(* system schedules the thread as long as the process lives: weak          *)
(* fairness of its steps.                                                  *)
(***************************************************************************)
MainThread(answerSet, maxLen) ==
    \/ Launch
    \/ New
    \/ OpenCapture
    \/ LoadAndReplay
    \/ InstallFilter
    \/ SkipPacket
    \/ TakeResponse
    \/ HandleAnswer(answerSet, maxLen)
    \/ CaptureEnd

ReplayThread ==
    \/ ReplaySleep
    \/ ReplayWake
    \/ ReplayResolve
    \/ ReplayDone

Next == MainThread(EngineAnswers, MaxAnswers)

InitEngine == Init /\ corp_zones \in EngineZoneSets

Spec == InitEngine /\ [][Next]_vars

NextStore ==
    \/ MainThread(StoreAnswers, 1)
    \/ Tick

InitStore == Init /\ corp_zones \in StoreZoneSets /\ db_path

SpecStore == InitStore /\ [][NextStore]_vars

NextReplay ==
    \/ MainThread(StoreAnswers, 1)
    \/ ReplayThread

SpecReplay == InitStore /\ [][NextReplay]_vars /\ WF_vars(ReplayThread)

\* SpecEngineReplay: the replay thread next to the matching engine at work,
\* with and without a store, with a zone host that is answered by an address
\* and by a CNAME, and the target of that CNAME answered by an address.
ReplayAnswers ==
    { Record(VpnCorp, "A", RDataA(Ip1)),
      Record(VpnCorp, "CNAME", RDataCNAME(CdnNet)),
      Record(CdnNet, "A", RDataA(Ip1)) }

NextEngineReplay ==
    \/ MainThread(ReplayAnswers, MaxAnswers)
    \/ ReplayThread

InitEngineReplay == Init /\ corp_zones = <<OrgZone, CorpZone>>

SpecEngineReplay == InitEngineReplay /\ [][NextEngineReplay]_vars

(***************************************************************************)
(* Properties.  The answers of the response being handled are              *)
(* packet.answers; routes and upserts are what the engine has emitted for  *)
(* them, each tagged with the position (idx) of the answer that caused it. *)
(***************************************************************************)
Handled == IF packet.kind = "response" THEN packet.answers ELSE <<>>
RoutesOf(i) == {k \in 1..Len(routes) : routes[k].idx = i}
UpsertsOf(i) == {k \in 1..Len(upserts) : upserts[k].idx = i}
Dotted(a) == <<ToString(a[1]), ".", ToString(a[2]), ".", ToString(a[3]), ".",
               ToString(a[4])>>

\* The aliases known when answer i is reached: the targets of the zone-owned
\* CNAME answers of earlier responses and of the earlier answers of this one.
AliasesAt(i) == cnamedPre \cup ZoneCnameTargets(Handled, i - 1)
AliasQualified(i) == to_lowercase(Handled[i].name) \in AliasesAt(i)

\* C1: every A answer with IPv4 data whose owner lies in a configured zone
\* yields exactly one route intent, for that address and toward the
\* configured target, and with a store exactly one upsert for that owner;
\* a repeated answer yields them again.
C1_ZoneARoutedAndLoggedOnce ==
    \A i \in 1..Len(Handled) :
        (IsA(Handled[i]) /\ InZone(Handled[i].name)) =>
            /\ Cardinality(RoutesOf(i)) = 1
            /\ \A k \in RoutesOf(i) :
                  /\ routes[k].dest = Dotted(Handled[i].data.addr)
                  /\ routes[k].gateway = Dotted(Gateway)
            /\ db_path =>
                  /\ Cardinality(UpsertsOf(i)) = 1
                  /\ \A k \in UpsertsOf(i) :
                        upserts[k].host = HostOf(Handled[i].name)

C1_Witness ==
    /\ db_path
    /\ Handled = <<Record(VpnCorp, "A", RDataA(Ip1)), Record(VpnCorp, "A", RDataA(Ip1))>>
    /\ Len(routes) = 2
    /\ Len(upserts) = 2
    /\ \E r \in 1..Len(dns_log) : dns_log[r].host = HostOf(VpnCorp)

\* C2: every route intent comes from an A answer whose owner, when the answer
\* was processed, lay in a configured zone or was a known alias; with no zone
\* configured there is never a route intent.
C2_RoutesOnlyForQualifiedA ==
    /\ \A k \in 1..Len(routes) :
          /\ routes[k].idx \in 1..Len(Handled)
          /\ IsA(Handled[routes[k].idx])
          /\ InZone(Handled[routes[k].idx].name) \/ AliasQualified(routes[k].idx)
    /\ corp_zones = <<>> => routes = <<>>

C2_Witness ==
    /\ Handled = <<Record(NotCorp, "A", RDataA(Ip2)), Record(VpnCorp, "A", NoData)>>
    /\ corp_zones = <<OrgZone, CorpZone>>
    /\ alias = {}
    /\ routes = <<>>

\* C3: an A answer owned by the target of a zone-owned CNAME answer of an
\* earlier response gets a route intent for its address, also when the target
\* lies in no zone.
C3_AliasOfEarlierResponseRouted ==
    \A i \in 1..Len(Handled) :
        (IsA(Handled[i]) /\ to_lowercase(Handled[i].name) \in cnamedPre) =>
            \E k \in RoutesOf(i) : routes[k].dest = Dotted(Handled[i].data.addr)

C3_Witness ==
    /\ Handled = <<Record(NotCorp, "A", RDataA(Ip2))>>
    /\ ~InZone(NotCorp)
    /\ to_lowercase(NotCorp) \in cnamedPre
    /\ Len(routes) = 1
    /\ routes[1].dest = Dotted(Ip2)

\* The case of C4 and C5: answer i is a zone-owned CNAME whose target lies in
\* no zone and was no alias when answer j was reached, and answer j is an A
\* record owned by that target.
FreshAliasPair(i, j) ==
    /\ IsCNAME(Handled[i]) /\ InZone(Handled[i].name)
    /\ IsA(Handled[j])
    /\ NameEq(Handled[j].name, Handled[i].data.cname)
    /\ ~InZone(Handled[j].name)
    /\ to_lowercase(Handled[j].name) \notin
          cnamedPre \cup ZoneCnameTargets(Handled, (IF i < j THEN i ELSE j) - 1)

\* C4 as claimed: within one response, an A answer owned by the target of an
\* earlier zone-owned CNAME answer of the same response gets no route intent.
C4_Original ==
    \A i \in 1..Len(Handled), j \in 1..Len(Handled) :
        (i < j /\ FreshAliasPair(i, j)) => RoutesOf(j) = {}

\* C4 amended: alias membership is tested against the alias set as it stands
\* when the answer is reached, the targets inserted by earlier answers of the
\* same response included: such an A answer gets exactly one route intent.
C4_AliasOfSameResponseRouted ==
    \A i \in 1..Len(Handled), j \in 1..Len(Handled) :
        (i < j /\ FreshAliasPair(i, j)) =>
            /\ Cardinality(RoutesOf(j)) = 1
            /\ \A k \in RoutesOf(j) : routes[k].dest = Dotted(Handled[j].data.addr)

C4_Witness ==
    /\ Handled = <<Record(VpnCorp, "CNAME", RDataCNAME(NotCorpUC)),
                   Record(NotCorp, "A", RDataA(Ip2))>>
    /\ aliasPre = {}
    /\ cnamedPre = {}
    /\ Len(routes) = 1
    /\ routes[1].idx = 2

\* C5: an A answer is not routed because the answer right after it is a
\* zone-owned CNAME to its owner: when the CNAME has been processed there is
\* still no route intent for the A answer before it.
C5_NoRetroactiveRoute ==
    \A n \in 2..Len(Handled) :
        FreshAliasPair(n, n - 1) =>
            /\ RoutesOf(n - 1) = {}
            /\ alias_contains(alias, Handled[n - 1].name)

C5_Witness ==
    /\ Handled = <<Record(NotCorp, "A", RDataA(Ip2)),
                   Record(VpnCorp, "CNAME", RDataCNAME(NotCorpUC))>>
    /\ aliasPre = {}
    /\ alias = {NotCorpUC}
    /\ routes = <<>>

\* C6: with a store, an answer causes an upsert (exactly one, for its owner)
\* if and only if its owner lies in a configured zone, whatever its type; an
\* A answer that qualifies through an alias only is routed and not logged, a
\* zone-owned CNAME is logged and not routed.  Without a store nothing is
\* logged.
C6_LogIffZoneOwned ==
    /\ \A i \in 1..Len(Handled) :
          /\ Cardinality(UpsertsOf(i)) =
                (IF db_path /\ InZone(Handled[i].name) THEN 1 ELSE 0)
          /\ \A k \in UpsertsOf(i) : upserts[k].host = HostOf(Handled[i].name)
          /\ (IsA(Handled[i]) /\ ~InZone(Handled[i].name) /\ AliasQualified(i)) =>
                Cardinality(RoutesOf(i)) = 1
          /\ IsCNAME(Handled[i]) => RoutesOf(i) = {}
    /\ \A k \in 1..Len(upserts) : upserts[k].idx \in 1..Len(Handled)

C6_Witness ==
    /\ db_path
    /\ Handled = <<Record(NotCorp, "A", RDataA(Ip2))>>
    /\ to_lowercase(NotCorp) \in cnamedPre
    /\ Len(routes) = 1
    /\ upserts = <<>>
    /\ Len(dns_log) = 1
    /\ dns_log[1].host = HostOf(VpnCorp)

(***************************************************************************)
(* Properties of the store (SpecStore).                                    *)
(***************************************************************************)
Hosts(rows) == {rows[k].host : k \in 1..Len(rows)}
RowsOf(rows, h) == {k \in 1..Len(rows) : rows[k].host = h}

\* C7: the table holds exactly one row for each host string upserted so far
\* and none for any other; the row's timestamp is the time of the latest
\* successful upsert of that host.
C7_OneRowPerHostLatestTime ==
    /\ Hosts(dns_log) = DOMAIN lastSeen
    /\ \A h \in DOMAIN lastSeen :
          /\ Cardinality(RowsOf(dns_log, h)) = 1
          /\ \A k \in RowsOf(dns_log, h) : dns_log[k].timestamp = lastSeen[h]

C7_Witness ==
    /\ Len(dns_log) = 2
    /\ dns_log[1].host = HostOf(VpnCorp)
    /\ dns_log[2].host = HostOf(NotCorp)
    /\ dns_log[1].timestamp = StartTime + Hour
    /\ dns_log[2].timestamp = StartTime
    /\ Len(upserts) = 1
    /\ upserts[1].host = HostOf(VpnCorp)
    /\ upserts[1].ok

\* The rows a load at time t is to return: seen less than seven days before
\* t, host not empty, timestamp not zero.
Loadable(r, t) == t - r.timestamp < 7 * Day /\ r.host # <<>> /\ r.timestamp # 0

\* A step of the main thread in which load_entries succeeds.
LoadStep == pc = "load" /\ pc' = "filter" /\ replay'.pc = "sleep"

\* C8: a successful load at time now returns exactly the rows of the table
\* that are loadable at now, each once, as (host, timestamp).
C8_LoadReturnsRecentRows ==
    [][LoadStep =>
          /\ {loaded'[k] : k \in 1..Len(loaded')}
                = {dns_log[k] : k \in {j \in 1..Len(dns_log) : Loadable(dns_log[j], now)}}
          /\ \A a \in 1..Len(loaded'), b \in 1..Len(loaded') :
                loaded'[a] = loaded'[b] => a = b]_vars

\* A row 8 days old and a row with the empty host are left out, a row 1 hour
\* old is returned.
C8_Witness ==
    /\ pc = "filter"
    /\ replay.pc = "sleep"
    /\ loaded = <<[timestamp |-> now - Hour, host |-> HostOf(NotCorp)]>>
    /\ \E k \in 1..Len(dns_log) :
          dns_log[k].timestamp = now - 8 * Day /\ dns_log[k].host = HostOf(VpnCorp)
    /\ \E k \in 1..Len(dns_log) :
          dns_log[k].timestamp = now - Hour /\ dns_log[k].host = <<>>

\* C9: no step removes a row or a host from the table, and a load leaves the
\* table as it is: a host once upserted keeps its row, however old.
C9_RowsAreNeverDeleted ==
    [][/\ Hosts(dns_log) \subseteq Hosts(dns_log')
       /\ Len(dns_log') >= Len(dns_log)
       /\ DOMAIN lastSeen' \subseteq Hosts(dns_log')
       /\ pc = "load" => dns_log' = dns_log]_vars

C9_Witness ==
    /\ pc = "capture"
    /\ runs = 2
    /\ replay.pc = "sleep"
    /\ loaded = <<>>
    /\ Len(dns_log) = 1
    /\ dns_log[1].host = HostOf(VpnCorp)
    /\ now - dns_log[1].timestamp > 7 * Day

(***************************************************************************)
(* Properties of the replay thread (SpecReplay).                           *)
(***************************************************************************)
HostPort(h) == h \o <<":", "80">>

\* What the replay thread has done so far is right: it works on the entries
\* the load returned; its attempts are, in load order, one for each of the
\* first entries and for nothing else; none is made before a second has
\* passed since the thread was spawned; when it has ended, every entry has
\* had its attempt.
ReplaySafe ==
    /\ replay.pc = "none" => attempts = <<>>
    /\ replay.pc # "none" => replay.entries = loaded
    /\ Len(attempts) <= Len(loaded)
    /\ \A k \in 1..Len(attempts) : attempts[k].addr = HostPort(loaded[k].host)
    /\ attempts # <<>> => now >= replay.spawned + 1
    /\ replay.pc \in {"resolve", "done"} => now >= replay.spawned + 1
    /\ replay.pc = "done" => Len(attempts) = Len(loaded)

\* C10 as claimed: once scheduled with loaded entries, the replay task
\* eventually has issued its attempts for every one of them and has terminated.
C10_Original ==
    (replay.pc = "sleep" /\ loaded # <<>>)
        ~> (replay.pc = "done" /\ Len(attempts) = Len(loaded))

\* C10 amended: the attempts are always as ReplaySafe says, and a scheduled
\* replay task runs to its end unless the process ends first.
C10_ReplayRunsWhileProcessLives ==
    /\ []ReplaySafe
    /\ (replay.pc = "sleep") ~> (replay.pc = "done" \/ ~Running)

C10_Witness ==
    /\ Running
    /\ replay.pc = "done"
    /\ Len(dns_log) = 3
    /\ Len(loaded) = 2
    /\ Len(attempts) = 2
    /\ attempts[1].addr = HostPort(HostOf(NotCorp))
    /\ attempts[2].addr = HostPort(HostOf(VpnCorp))

Failed(k) == k \in 1..Len(attempts) /\ ~attempts[k].ok

\* C11: a resolution that fails does not end the replay loop.  Whatever
\* attempts have failed, the loop stands at the entry after its last attempt,
\* a failing attempt moves it on by one entry exactly as a successful one
\* does, and when the thread has ended every loaded host has had its attempt;
\* after a failed attempt the thread still runs to its end for as long as the
\* process lives.
C11_FailedResolutionDoesNotAbort ==
    /\ [](/\ replay.pc = "resolve" => replay.next = Len(attempts) + 1
          /\ replay.pc = "done" =>
                /\ Len(attempts) = Len(loaded)
                /\ \A k \in 1..Len(loaded) :
                      attempts[k].addr = HostPort(loaded[k].host))
    /\ [][(Len(attempts') = Len(attempts) + 1 /\ ~attempts'[Len(attempts')].ok)
              => /\ replay'.pc = "resolve"
                 /\ replay'.next = replay.next + 1
                 /\ replay'.entries = replay.entries]_vars
    /\ (Running /\ \E k \in 1..Len(attempts) : Failed(k))
          ~> (replay.pc = "done" \/ ~Running)

\* Two hosts loaded, the first resolution failed, the second was made all
\* the same and succeeded.
C11_Witness ==
    /\ replay.pc = "done"
    /\ Len(loaded) = 2
    /\ Len(attempts) = 2
    /\ Failed(1)
    /\ attempts[2].ok
    /\ attempts[2].addr = HostPort(loaded[2].host)

(***************************************************************************)
(* The replay thread next to the engine (SpecEngineReplay).                *)
(***************************************************************************)
EngineState == <<alias, corp_zones, dns_log, routes, upserts>>

\* a step of the replay thread: the process stays where it is while the
\* thread's position, its attempts or the time it sleeps through change
ReplayStep == pc' = pc /\ (replay' # replay \/ attempts' # attempts \/ now' # now)

\* C12: the replay thread neither writes nor reads engine state.  Its steps
\* leave the alias set, the zones, the query log and the emitted route and
\* log intents as they are; what it resolves is taken from the entries it
\* was given, whatever the log holds by then; and the engine state changes
\* only in steps of the main thread: in the capture loop, or when a new
\* process starts with an empty alias set.
C12_ReplayLeavesEngineStateAlone ==
    [][/\ ReplayStep => UNCHANGED EngineState
       /\ Len(attempts') = Len(attempts) + 1 =>
             attempts'[Len(attempts')].addr
                = HostPort(replay.entries[replay.next].host)
       /\ EngineState' # EngineState =>
             \/ /\ replay' = replay /\ attempts' = attempts /\ now' = now
                /\ pc = "capture" /\ pc' = "capture"
             \/ pc' = "new"]_vars

\* The thread slept, the engine then logged the host again, took an alias
\* and emitted a route, and the thread made its attempt for the one entry
\* it had been given.
C12_Witness ==
    /\ pc = "capture"
    /\ replay.pc = "done"
    /\ Len(attempts) = 1
    /\ alias = {CdnNet}
    /\ Len(routes) = 1
    /\ Len(dns_log) = 1
    /\ dns_log[1].timestamp = replay.wake
    /\ loaded[1].timestamp < replay.wake

(***************************************************************************)
(* Failures inside the engine (Spec).                                      *)
(***************************************************************************)
UpsertFailed(i) == \E k \in UpsertsOf(i) : ~upserts[k].ok
RouteFailed(i) == \E k \in RoutesOf(i) : ~routes[k].ok

\* answer j has had what its owner and type call for: one route intent for
\* its address if it is an A answer that qualifies and none otherwise, its
\* target among the aliases if it is a zone-owned CNAME, one upsert if its
\* owner lies in a zone and there is a store and none otherwise
ProcessedNormally(j) ==
    /\ Cardinality(RoutesOf(j)) =
          (IF IsA(Handled[j]) /\ (InZone(Handled[j].name) \/ AliasQualified(j))
           THEN 1 ELSE 0)
    /\ \A k \in RoutesOf(j) : routes[k].dest = Dotted(Handled[j].data.addr)
    /\ (IsCNAME(Handled[j]) /\ InZone(Handled[j].name)) =>
          alias_contains(alias, Handled[j].data.cname)
    /\ Cardinality(UpsertsOf(j)) =
          (IF db_path /\ InZone(Handled[j].name) THEN 1 ELSE 0)

\* C13: an upsert that fails stops nothing.  The answer whose upsert failed
\* still gets its route intent (A) or has its target inserted (CNAME), every
\* answer of every response is processed as its owner and type call for
\* whatever failed before it, and the step in which an upsert fails leaves
\* the query log as it was and the process in its capture loop.
C13_FailedUpsertDoesNotAbort ==
    /\ [](\A i \in 1..Len(Handled) :
            /\ ProcessedNormally(i)
            /\ UpsertFailed(i) =>
                  /\ db_path /\ InZone(Handled[i].name)
                  /\ IsA(Handled[i]) =>
                        \E k \in RoutesOf(i) :
                            routes[k].dest = Dotted(Handled[i].data.addr)
                  /\ IsCNAME(Handled[i]) =>
                        to_lowercase(Handled[i].data.cname)
                            \in {to_lowercase(a) : a \in alias})
    /\ [][(Len(upserts') = Len(upserts) + 1 /\ ~upserts'[Len(upserts')].ok)
             => dns_log' = dns_log /\ pc' = "capture"]_vars

\* Every upsert so far has failed (the log is empty): the zone-owned CNAME of
\* an earlier response made its target an alias all the same, the A answer
\* owned by that alias is routed, and so is the zone-owned A answer after it,
\* whose own upsert failed.
C13_Witness ==
    /\ db_path
    /\ dns_log = <<>>
    /\ cnamedPre = {to_lowercase(NotCorpUC)}
    /\ Handled = <<Record(NotCorp, "A", RDataA(Ip2)),
                   Record(VpnCorp, "A", RDataA(Ip1))>>
    /\ Len(routes) = 2
    /\ routes[2].dest = Dotted(Ip1)
    /\ Len(upserts) = 1
    /\ UpsertFailed(2)

(***************************************************************************)
(* With and without a store (SpecEngineReplay).                            *)
(***************************************************************************)
\* a step of the for loop of log_dns_response: one more answer gone through
AnswerStep ==
    /\ packet'.kind = "response"
    /\ Len(packet'.answers) = Len(packet.answers) + 1
    /\ pc' = pc

\* What an answer does to the alias set and to the route intents, written
\* with no reference to a store.
AliasAfter(al, ans) ==
    IF IsCNAME(ans) /\ InZone(ans.name) THEN alias_insert(al, ans.data.cname)
    ELSE al
RoutesAfter(rt, al, ans, i, ok) ==
    IF IsA(ans) /\ (InZone(ans.name) \/ alias_contains(al, ans.name))
    THEN Append(rt, [idx |-> i, dest |-> Dotted(ans.data.addr),
                     gateway |-> Dotted(target), ok |-> ok])
    ELSE rt

\* C14: without a persistence path nothing is ever upserted, loaded or
\* replayed: the log stays empty, no upsert is made, the load returns None, no
\* replay thread exists and no resolution is attempted.  With or without a
\* store, every answer takes the alias set and the route intents from the
\* same values to the same values, those of AliasAfter and RoutesAfter, and
\* no other step changes them except to start afresh (routes at the next
\* packet, both at the next launch): for the same responses they evolve alike.
C14_NoStoreSameEngine ==
    /\ [](~db_path =>
            /\ dns_log = <<>> /\ lastSeen = <<>>
            /\ upserts = <<>>
            /\ loaded = <<>>
            /\ replay = NoReplay
            /\ attempts = <<>>)
    /\ [][IF AnswerStep
          THEN LET ans == packet'.answers[Len(packet'.answers)]
                   i == Len(packet'.answers)
               IN  /\ alias' = AliasAfter(alias, ans)
                   /\ \E ok \in BOOLEAN :
                         routes' = RoutesAfter(routes, alias, ans, i, ok)
          ELSE /\ alias' = alias \/ (pc' = "new" /\ alias' = {})
               /\ routes' = routes \/ routes' = <<>>]_vars

\* No store, second launch: the engine has taken an alias and routed the A
\* answer owned by it and a zone-owned one; nothing was logged, loaded or
\* replayed.
C14_Witness ==
    /\ ~db_path
    /\ runs = 2
    /\ pc = "capture"
    /\ alias = {CdnNet}
    /\ Handled = <<Record(CdnNet, "A", RDataA(Ip1)),
                   Record(VpnCorp, "A", RDataA(Ip1))>>
    /\ Len(routes) = 2
    /\ upserts = <<>>
    /\ dns_log = <<>>
    /\ replay.pc = "none"

\* the query log after an answer, written with no reference to its route
LogAfter(rows, ans, failed) ==
    IF db_path /\ InZone(ans.name) /\ ~failed
    THEN on_query(rows, HostOf(ans.name), now)
    ELSE rows

\* C15: a route installation that fails is not tried again and stops
\* nothing.  An answer whose installation failed has exactly that one
\* invocation, every answer of every response is processed as its owner and
\* type call for whatever failed before it, and the step in which an
\* installation is made, failed or not, leaves the alias set as it was, the
\* query log as the answer's upsert alone makes it, and the process in its
\* capture loop.
C15_FailedRouteNotRetried ==
    /\ [](\A i \in 1..Len(Handled) :
            /\ ProcessedNormally(i)
            /\ RouteFailed(i) =>
                  /\ Cardinality(RoutesOf(i)) = 1
                  /\ IsA(Handled[i])
                  /\ \A k \in RoutesOf(i) :
                        /\ routes[k].dest = Dotted(Handled[i].data.addr)
                        /\ routes[k].gateway = Dotted(Gateway))
    /\ [][Len(routes') > Len(routes) =>
             /\ Len(routes') = Len(routes) + 1
             /\ AnswerStep
             /\ alias' = alias
             /\ \E failed \in BOOLEAN :
                   dns_log' = LogAfter(dns_log,
                                 packet'.answers[Len(packet'.answers)], failed)
             /\ pc' = "capture"]_vars

\* The installation for the zone-owned A answer failed: one invocation, the
\* host logged as usual, and the CNAME after it has made its target an alias.
C15_Witness ==
    /\ db_path
    /\ Handled = <<Record(VpnCorp, "A", RDataA(Ip1)),
                   Record(VpnCorp, "CNAME", RDataCNAME(NotCorpUC))>>
    /\ Len(routes) = 1
    /\ RouteFailed(1)
    /\ alias = {NotCorpUC}
    /\ Len(upserts) = 2
    /\ Len(dns_log) = 1
    /\ dns_log[1].host = HostOf(VpnCorp)

(***************************************************************************)
(* Startup and the capture loop (SpecReplay).                              *)
(***************************************************************************)
\* C16 as claimed: the process is brought down by an error only where it
\* opens the store (new) or the capture device (start, up to open), at which
\* point no replay thread has been spawned and no packet taken; from any
\* later position it keeps running, or leaves its capture loop when
\* cap.next() fails.
C16_OnlyOpenFailuresAreFatal ==
    [][(Running /\ ~Running') =>
          \/ /\ pc \in {"new", "open"}
             /\ pc' = "aborted"
             /\ replay = NoReplay
             /\ packet = NoPacket
          \/ /\ pc = "capture"
             /\ pc' = "exited"]_vars

(***************************************************************************)
(* What reaches the engine (Spec).                                         *)
(***************************************************************************)
SkipKinds == {"ethernet_err", "dns_err", "query"}

\* C17: a packet that does not decode (as a frame or as a DNS message) and a
\* message that is not a response do nothing: after such a packet there is no
\* route intent and no upsert for it, the alias set and the query log are as
\* before it, and the capture loop is ready for the next packet; the alias
\* set grows, rows are written and intents are emitted only while a response
\* is being gone through.
C17_OnlyResponsesReachEngine ==
    /\ [](packet.kind \in SkipKinds =>
            /\ routes = <<>>
            /\ upserts = <<>>
            /\ alias = aliasPre
            /\ pc = "capture" => ENABLED TakeResponse)
    /\ [][/\ (packet' # packet /\ packet'.kind \in SkipKinds) =>
                /\ pc' = "capture"
                /\ alias' = alias
                /\ dns_log' = dns_log
          /\ (\/ ~(alias' \subseteq alias)
              \/ dns_log' # dns_log
              \/ Len(routes') > Len(routes)
              \/ Len(upserts') > Len(upserts)) =>
                /\ packet.kind = "response"
                /\ packet'.kind = "response"]_vars

\* An undecodable message is the last packet taken: the alias and the row
\* that earlier responses left are there, nothing was emitted for the packet.
C17_Witness ==
    /\ db_path
    /\ pc = "capture"
    /\ packet.kind = "dns_err"
    /\ alias = {NotCorpUC}
    /\ aliasPre = {NotCorpUC}
    /\ Len(dns_log) = 1
    /\ routes = <<>>
    /\ upserts = <<>>

(***************************************************************************)
(* The alias set (Spec).                                                   *)
(***************************************************************************)
\* C18: in every state of a run the alias set is, as a set of names (which
\* compare without regard to case), exactly the set of the targets of the
\* zone-owned CNAME answers gone through so far in that run.  It is empty
\* until the capture loop runs and no step of a run removes a member.  The
\* target of a CNAME whose owner is an alias but lies in no zone is not
\* added: an A answer owned by a name that lies in no zone and is the target
\* of no zone-owned CNAME gets no route intent, whatever CNAME chain leads
\* to it.
C18_AliasSetIsZoneCnameTargets ==
    /\ [](/\ {to_lowercase(a) : a \in alias} = cnamed
          /\ Cardinality(alias) = Cardinality(cnamed)
          /\ cnamed = cnamedPre \cup ZoneCnameTargets(Handled, Len(Handled))
          /\ pc \in {"off", "new", "open", "load", "filter"} => alias = {}
          /\ \A i \in 1..Len(Handled) :
                (/\ IsA(Handled[i])
                 /\ ~InZone(Handled[i].name)
                 /\ to_lowercase(Handled[i].name) \notin cnamed)
                    => RoutesOf(i) = {})
    /\ [][alias \subseteq alias' \/ (pc' = "new" /\ alias' = {})]_vars

\* The chain vpn.CORP.com -> NotCorp.com -> cdn.net: the first link came in
\* an earlier response and made NotCorp.com an alias; the second link, owned
\* by that alias only, adds nothing, and the A answer owned by cdn.net is not
\* routed.
C18_Witness ==
    /\ corp_zones = <<OrgZone, CorpZone>>
    /\ aliasPre = {NotCorpUC}
    /\ Handled = <<Record(NotCorp, "CNAME", RDataCNAME(CdnNet)),
                   Record(CdnNet, "A", RDataA(Ip1))>>
    /\ alias = {NotCorpUC}
    /\ routes = <<>>

(***************************************************************************)
(* The replay thread and startup (SpecReplay).                             *)
(***************************************************************************)
\* C19 as claimed: whenever the replay thread makes a resolution attempt the
\* main thread has installed its filter and is in its capture loop, and the
\* main thread, wherever it stands, can take its next step whatever the
\* replay thread is doing.
C19_ResolutionAfterFilterInstalled ==
    /\ [][Len(attempts') > Len(attempts) => pc = "capture"]_vars
    /\ [](pc = "filter" => ENABLED InstallFilter)
    /\ [](pc = "capture" => ENABLED TakeResponse)

\* C20: a load sees completed upserts only, those of earlier runs.  In a run
\* the entries are loaded at most once, in one step taken before any packet:
\* the step finds no packet taken and no upsert made in this run, leaves the
\* table as it is, and each entry it returns is a row of the table, the
\* (host, time) of the latest successful upsert of that host.  Rows are
\* written in the capture loop only, and writing them changes neither what
\* was loaded nor what the replay thread was given: its attempts are for
\* loaded hosts only, never for a host that has its row from this run.
C20_LoadSeesEarlierRunsOnly ==
    /\ [][/\ pc = "load" =>
                /\ pc' = "filter"
                /\ packet = NoPacket /\ upserts = <<>>
                /\ loaded = <<>> /\ replay = NoReplay /\ attempts = <<>>
                /\ dns_log' = dns_log
                /\ \A k \in 1..Len(loaded') :
                      /\ \E r \in 1..Len(dns_log) : dns_log[r] = loaded'[k]
                      /\ loaded'[k].host \in DOMAIN lastSeen
                      /\ loaded'[k].timestamp = lastSeen[loaded'[k].host]
          /\ pc' = "load" => pc = "open"
          /\ loaded' # loaded => (LoadStep \/ pc' = "new")
          /\ dns_log' # dns_log =>
                /\ pc = "capture" /\ pc' = "capture"
                /\ loaded' = loaded
                /\ replay'.entries = replay.entries]_vars
    /\ [](/\ replay.pc # "none" => replay.entries = loaded
          /\ \A k \in 1..Len(attempts) :
                \E j \in 1..Len(loaded) : attempts[k].addr = HostPort(loaded[j].host)
          /\ \A j \in 1..Len(loaded) :
                /\ loaded[j].host \in DOMAIN lastSeen
                /\ loaded[j].timestamp <= lastSeen[loaded[j].host])

\* Second run: notcorp.com was logged in the first run and is loaded and
\* replayed; vpn.CORP.com is logged for the first time in this run, after the
\* load, and the replay thread has ended without an attempt for it.
C20_Witness ==
    /\ runs = 2
    /\ pc = "capture"
    /\ Len(loaded) = 1
    /\ loaded[1].host = HostOf(NotCorp)
    /\ Len(dns_log) = 2
    /\ dns_log[2].host = HostOf(VpnCorp)
    /\ dns_log[2].timestamp > loaded[1].timestamp
    /\ replay.pc = "done"
    /\ Len(attempts) = 1
    /\ attempts[1].addr = HostPort(HostOf(NotCorp))

====
